---------------------------- MODULE Spec2Model ----------------------------
(***************************************************************************)
(* A model of packtools' setup.py, the package descriptor.                 *)
(*                                                                         *)
(* The descriptor is a straight-line script: it computes five script paths *)
(* with _path(), and hands them, with the literal metadata, to setup().    *)
(* Its only inputs are the interpreter's __file__ (the path by which the   *)
(* descriptor was named at invocation) and, through the relative paths it  *)
(* may produce, the current working directory.                             *)
(*                                                                         *)
(* A path string is a sequence of tokens: "/" is the separator character,  *)
(* any other token is a maximal run of non-separator characters (a name,   *)
(* "." or "..").  os.path.dirname and os.path.join only look at where the  *)
(* separators are, so they act on tokens exactly as on characters.         *)
(* Dependency specifiers are sequences of characters, so that parsing them *)
(* is a computation.  The file system has no symbolic links.               *)
(***************************************************************************)
EXTENDS Naturals, Sequences, FiniteSets

VARIABLES
    cwd,      \* the process's current working directory (absolute components)
    file,     \* __file__: the descriptor's path as the interpreter names it
    exists,   \* the script files present in <descriptor dir>/scripts on disk
    pc,       \* "loaded": interpreter started; "called": setup() was called
    handed,   \* the keyword arguments of the setup() calls of this evaluation
    prev      \* the previous evaluation: <<>> or <<[cwd, file, kwargs]>>

vars == <<cwd, file, exists, pc, handed, prev>>

(***************************************************************************)
(* Bound: the longest descriptor path (in tokens) given at invocation.     *)
(***************************************************************************)
MaxArgLen == 5

(***************************************************************************)
(* The file system around the descriptor.                                  *)
(***************************************************************************)
Root == <<>>
RepoDir == <<"pkg">>
ScriptsDir == RepoDir \o <<"scripts">>
SetupFile == RepoDir \o <<"setup.py">>
Dirs == {Root, RepoDir, ScriptsDir, <<"tmp">>}
Cwds == {Root, RepoDir, <<"tmp">>}
ScriptNames == {"multipip", "pip-download", "py2rpm", "specprint", "yyoom"}
NoEnt == <<"ENOENT">>

(***************************************************************************)
(* str.startswith('/'), str.endswith('/'), str.rfind('/') (1-based, 0 when *)
(* absent) and str.rstrip('/').                                            *)
(***************************************************************************)
startswithSep(p) == p # <<>> /\ p[1] = "/"

endswithSep(p) == p # <<>> /\ p[Len(p)] = "/"

rfindSep(p) ==
    LET S == {i \in 1..Len(p) : p[i] = "/"}
    IN  IF S = {} THEN 0 ELSE CHOOSE i \in S : \A j \in S : j <= i

RECURSIVE rstripSep(_)
rstripSep(p) == IF endswithSep(p) THEN rstripSep(SubSeq(p, 1, Len(p) - 1)) ELSE p

(***************************************************************************)
(* posixpath.dirname: everything up to and including the last separator,   *)
(* with trailing separators stripped unless it consists of separators.     *)
(***************************************************************************)
dirname(p) ==
    LET head == SubSeq(p, 1, rfindSep(p))
    IN  IF head # <<>> /\ \E i \in 1..Len(head) : head[i] # "/"
        THEN rstripSep(head)
        ELSE head

(***************************************************************************)
(* posixpath.join(a, b).                                                   *)
(***************************************************************************)
join(a, b) ==
    IF startswithSep(b) THEN b
    ELSE IF a = <<>> \/ endswithSep(a) THEN a \o b
    ELSE a \o <<"/">> \o b

(***************************************************************************)
(* The operating system's resolution of a path from directory d: an        *)
(* absolute path is walked from the root, a relative one from d; every     *)
(* component but the last must be a directory.  The result is the location *)
(* named (absolute components), whether or not a file is there.            *)
(***************************************************************************)
Parent(d) == IF d = Root THEN Root ELSE SubSeq(d, 1, Len(d) - 1)

RECURSIVE Walk(_, _, _)
Walk(cur, p, i) ==
    IF i > Len(p) THEN cur
    ELSE IF cur \notin Dirs THEN NoEnt
    ELSE IF p[i] \in {"/", "."} THEN Walk(cur, p, i + 1)
    ELSE IF p[i] = ".." THEN Walk(Parent(cur), p, i + 1)
    ELSE Walk(cur \o <<p[i]>>, p, i + 1)

Resolve(d, p) ==
    IF p = <<>> THEN NoEnt
    ELSE Walk(IF startswithSep(p) THEN Root ELSE d, p, 1)

(***************************************************************************)
(* The ways the descriptor can be invoked: a working directory d and a     *)
(* path string of at most MaxArgLen tokens that the operating system       *)
(* resolves, from d, to the descriptor file.  Two names are never adjacent *)
(* in a string (they would be one name).                                   *)
(***************************************************************************)
ArgTokens == {"/", ".", "..", "pkg", "scripts", "setup.py"}

WellFormed(p) == \A i \in 1..(Len(p) - 1) : p[i] # "/" => p[i + 1] = "/"

ArgPaths ==
    UNION {{p \in [1..n -> ArgTokens] : WellFormed(p)} : n \in 1..MaxArgLen}

Invocations ==
    {a : a \in {b \in Cwds \X ArgPaths : Resolve(b[1], b[2]) = SetupFile}}

(***************************************************************************)
(* def _path(fn): return os.path.join(os.path.dirname(__file__), fn)       *)
(***************************************************************************)
\* Variants: the directory of __file__ forgotten; the directory made absolute.
_path_cwd(fn) == fn

_path_abs(fn) ==
    LET d == dirname(file)
        here == IF cwd = Root THEN <<"/">> ELSE <<"/", cwd[1]>> \o
                    (IF Len(cwd) > 1 THEN <<"/", cwd[2]>> ELSE <<>>)
    IN  join(IF startswithSep(d) THEN d ELSE join(here, d), fn)

_path(fn) == join(dirname(file), fn)

(***************************************************************************)
(* The scripts=[...] argument: five _path(os.path.join('scripts', name)).  *)
(***************************************************************************)
\* Variants: an entry lost and two swapped; only the files found on disk.
scripts_short ==
    << _path(join(<<"scripts">>, <<"multipip">>)),
       _path(join(<<"scripts">>, <<"pip-download">>)),
       _path(join(<<"scripts">>, <<"specprint">>)),
       _path(join(<<"scripts">>, <<"py2rpm">>)) >>

scripts_existing ==
    SelectSeq(<< _path(join(<<"scripts">>, <<"multipip">>)),
                 _path(join(<<"scripts">>, <<"pip-download">>)),
                 _path(join(<<"scripts">>, <<"py2rpm">>)),
                 _path(join(<<"scripts">>, <<"specprint">>)),
                 _path(join(<<"scripts">>, <<"yyoom">>)) >>,
              LAMBDA q : q[Len(q)] \in exists)

scripts ==
    << _path(join(<<"scripts">>, <<"multipip">>)),
       _path(join(<<"scripts">>, <<"pip-download">>)),
       _path(join(<<"scripts">>, <<"py2rpm">>)),
       _path(join(<<"scripts">>, <<"specprint">>)),
       _path(join(<<"scripts">>, <<"yyoom">>)) >>

(***************************************************************************)
(* The install_requires=[...] argument, character by character.            *)
(***************************************************************************)
\* Variants: the list sorted by constraint; pip pinned; an operator mistyped.
install_requires_sorted ==
    << <<"p", "i", "p", ">", "=", "1", ".", "3">>,
       <<"s", "i", "x", ">", "=", "1", ".", "4", ".", "1">>,
       <<"a", "r", "g", "p", "a", "r", "s", "e">> >>

install_requires_pinned ==
    << <<"a", "r", "g", "p", "a", "r", "s", "e">>,
       <<"p", "i", "p", "=", "=", "1", ".", "3">>,
       <<"s", "i", "x", ">", "=", "1", ".", "4", ".", "1">> >>

install_requires_typo ==
    << <<"a", "r", "g", "p", "a", "r", "s", "e">>,
       <<"p", "i", "p", "=", ">", "1", ".", "3">>,
       <<"s", "i", "x", ">", "=", "1", ".", "4", ".", "1">> >>

install_requires ==
    << <<"a", "r", "g", "p", "a", "r", "s", "e">>,
       <<"p", "i", "p", ">", "=", "1", ".", "3">>,
       <<"s", "i", "x", ">", "=", "1", ".", "4", ".", "1">> >>

(***************************************************************************)
(* The classifiers=[...] argument.                                         *)
(***************************************************************************)
\* Variant: a list that survives from one evaluation to the next.
classifiers_accumulated ==
    LET declared == << "Development Status :: 4 - Beta",
                       "Topic :: Utilities",
                       "Operating System :: POSIX :: Linux",
                       "Programming Language :: Python" >>
    IN  IF prev = <<>> THEN declared ELSE prev[1].kwargs.classifiers \o declared

classifiers ==
    << "Development Status :: 4 - Beta",
       "Topic :: Utilities",
       "Operating System :: POSIX :: Linux",
       "Programming Language :: Python" >>

(***************************************************************************)
(* The keyword arguments of the setup(...) call.                           *)
(***************************************************************************)
\* Variant: the url normalised (its trailing separator stripped).
setup_kwargs_stripped ==
    [ name             |-> "packtools",
      version          |-> "0.0.1",
      description      |-> "Packaging toolbelt",
      author           |-> "OpenStack Foundation",
      author_email     |-> "openstack-dev@lists.openstack.org",
      url              |-> "https://github.com/harlowja/packtools",
      scripts          |-> scripts,
      install_requires |-> install_requires,
      classifiers      |-> classifiers,
      keywords         |-> "packaging rpm pip yum specfile" ]

setup_kwargs ==
    [ name             |-> "packtools",
      version          |-> "0.0.1",
      description      |-> "Packaging toolbelt",
      author           |-> "OpenStack Foundation",
      author_email     |-> "openstack-dev@lists.openstack.org",
      url              |-> "https://github.com/harlowja/packtools/",
      scripts          |-> scripts,
      install_requires |-> install_requires,
      classifiers      |-> classifiers,
      keywords         |-> "packaging rpm pip yum specfile" ]

(***************************************************************************)
(* The interpreter is started on the descriptor from some directory, under *)
(* some name that resolves to it; any subset of the scripts is on disk.    *)
(***************************************************************************)
Init ==
    /\ \E a \in Invocations :
          /\ cwd = a[1]
          /\ file = a[2]
    /\ exists \in SUBSET ScriptNames
    /\ pc = "loaded"
    /\ handed = <<>>
    /\ prev = <<>>

(***************************************************************************)
(* The module body runs: the arguments are computed and setup() is called. *)
(* Nothing is read from disk and nothing is kept besides the call.         *)
(***************************************************************************)
Evaluate ==
    /\ pc = "loaded"
    /\ handed' = Append(handed, setup_kwargs)
    /\ pc' = "called"
    /\ UNCHANGED <<cwd, file, exists, prev>>

(***************************************************************************)
(* The descriptor is evaluated again, by a new interpreter: module state   *)
(* does not survive; prev only records what the last evaluation did.       *)
(***************************************************************************)
Reinvoke ==
    /\ pc = "called"
    /\ \E a \in Invocations :
          /\ cwd' = a[1]
          /\ file' = a[2]
    /\ prev' = <<[cwd |-> cwd, file |-> file, kwargs |-> handed[1]]>>
    /\ handed' = <<>>
    /\ pc' = "loaded"
    /\ UNCHANGED exists

Next == Evaluate \/ Reinvoke

Spec == Init /\ [][Next]_vars

(***************************************************************************)
(*                             Properties                                  *)
(***************************************************************************)
Called == pc = "called"

kw == handed[1]

DeclaredNames == <<"multipip", "pip-download", "py2rpm", "specprint", "yyoom">>

ScriptFile(i) == ScriptsDir \o <<DeclaredNames[i]>>

IsSuffix(t, q) == Len(t) <= Len(q) /\ SubSeq(q, Len(q) - Len(t) + 1, Len(q)) = t

RECURSIVE Str(_)
Str(chars) == IF chars = <<>> THEN "" ELSE chars[1] \o Str(Tail(chars))

(***************************************************************************)
(* A dependency specifier read as a name and an optional constraint: the   *)
(* longest prefix of name characters, then nothing, or a comparison        *)
(* operator and a non-empty version.                                       *)
(***************************************************************************)
Digits == {"0", "1", "2", "3", "4", "5", "6", "7", "8", "9"}

Letters ==
    {"a", "b", "c", "d", "e", "f", "g", "h", "i", "j", "k", "l", "m",
     "n", "o", "p", "q", "r", "s", "t", "u", "v", "w", "x", "y", "z"}

NameChars == Letters \cup Digits \cup {"-", "_", "."}

VersionChars == Letters \cup Digits \cup {".", "*", "+", "-"}

Operators == {"<", "<=", "!=", "==", ">=", ">", "~="}

NameLen(c) ==
    LET S == {n \in 0..Len(c) : \A i \in 1..n : c[i] \in NameChars}
    IN  CHOOSE n \in S : \A m \in S : m <= n

ParseRequirement(c) ==
    LET n    == NameLen(c)
        rest == SubSeq(c, n + 1, Len(c))
        two  == IF Len(rest) >= 2 THEN rest[1] \o rest[2] ELSE ""
        one  == IF Len(rest) >= 1 THEN rest[1] ELSE ""
        op   == IF two \in Operators THEN two
                ELSE IF one \in Operators THEN one ELSE ""
        ver  == SubSeq(rest, Len(op) + 1, Len(rest))
    IN  [ name    |-> Str(SubSeq(c, 1, n)),
          op      |-> op,
          version |-> Str(ver),
          ok      |-> /\ n > 0
                      /\ \/ rest = <<>>
                         \/ /\ op # ""
                            /\ ver # <<>>
                            /\ \A i \in 1..Len(ver) : ver[i] \in VersionChars ]

(***************************************************************************)
(* C1: each of the five declared script paths, resolved from the working   *)
(* directory the descriptor was invoked in, is the file scripts/<name> in  *)
(* the descriptor's own directory; two evaluations from different working  *)
(* directories name the same files.                                        *)
(***************************************************************************)
C1_ScriptsResolveBesideDescriptor ==
    Called =>
        /\ Len(kw.scripts) = 5
        /\ \A i \in 1..5 : Resolve(cwd, kw.scripts[i]) = ScriptFile(i)
        /\ prev # <<>> =>
              \A i \in 1..5 :
                  Resolve(prev[1].cwd, prev[1].kwargs.scripts[i])
                      = Resolve(cwd, kw.scripts[i])

C1_Witness ==
    /\ Called
    /\ cwd = <<"tmp">>
    /\ ~startswithSep(file)
    /\ prev # <<>>
    /\ prev[1].cwd = RepoDir
    /\ prev[1].file = <<"setup.py">>

(***************************************************************************)
(* C2: one setup() call declares exactly five scripts, in the order        *)
(* multipip, pip-download, py2rpm, specprint, yyoom, each scripts/<name>.  *)
(***************************************************************************)
C2_ExactlyFiveScriptsInOrder ==
    Called =>
        /\ Len(handed) = 1
        /\ Len(kw.scripts) = 5
        /\ \A i \in 1..5 :
              /\ IsSuffix(<<"scripts", "/", DeclaredNames[i]>>, kw.scripts[i])
              /\ Len(kw.scripts[i]) > 3 => kw.scripts[i][Len(kw.scripts[i]) - 3] = "/"

C2_Witness ==
    /\ Called
    /\ Len(kw.scripts) = 5
    /\ kw.scripts[1] = <<"scripts", "/", "multipip">>
    /\ kw.scripts[5] = <<"scripts", "/", "yyoom">>

(***************************************************************************)
(* C3: exactly the three dependency specifiers 'argparse', 'pip>=1.3',     *)
(* 'six>=1.4.1' are declared, in this order, as written.                   *)
(***************************************************************************)
C3_ExactlyThreeRequirementsInOrder ==
    Called =>
        [i \in 1..Len(kw.install_requires) |-> Str(kw.install_requires[i])]
            = <<"argparse", "pip>=1.3", "six>=1.4.1">>

C3_Witness == Called /\ Len(kw.install_requires) = 3

(***************************************************************************)
(* C4 as claimed: every one of the three declared dependency specifiers    *)
(* carries a minimum-version (>=) constraint.                              *)
(***************************************************************************)
C4_EveryRequirementHasMinimumVersion ==
    Called =>
        \A i \in 1..Len(kw.install_requires) :
            ParseRequirement(kw.install_requires[i]).op = ">="

(***************************************************************************)
(* C4 as amended: three dependencies are declared; pip and six carry a     *)
(* minimum-version (>=) constraint, argparse carries no constraint.        *)
(***************************************************************************)
C4_TwoOfThreeHaveMinimumVersion ==
    Called =>
        LET parsed == [i \in 1..Len(kw.install_requires) |->
                          ParseRequirement(kw.install_requires[i])]
        IN  /\ Len(parsed) = 3
            /\ {parsed[i].name : i \in {j \in 1..3 : parsed[j].op = ">="}}
                   = {"pip", "six"}
            /\ {parsed[i].name : i \in {j \in 1..3 : parsed[j].op = ""}}
                   = {"argparse"}

C4_Witness ==
    /\ Called
    /\ \E i \in 1..Len(kw.install_requires) :
          ParseRequirement(kw.install_requires[i]).op = ">="
    /\ \E i \in 1..Len(kw.install_requires) :
          ParseRequirement(kw.install_requires[i]).op = ""

(***************************************************************************)
(* C6 as claimed: every evaluation passes the same name, version,          *)
(* description, author, author_email, url, scripts, install_requires,      *)
(* classifiers and keywords as the evaluation before it.                   *)
(***************************************************************************)
C6_SameArgumentsEveryEvaluation ==
    (Called /\ prev # <<>>) => kw = prev[1].kwargs

(***************************************************************************)
(* C6 as amended: every evaluation makes one setup() call and passes the   *)
(* same name, version, description, author, author_email, url,             *)
(* install_requires, classifiers and keywords as the evaluation before it; *)
(* it passes the same scripts whenever the descriptor is named by the same *)
(* path (__file__), and under any name scripts that resolve to the same    *)
(* five files.  Nothing is carried from one evaluation to the next.        *)
(***************************************************************************)
C6_SameArgumentsUpToDescriptorName ==
    (Called /\ prev # <<>>) =>
        LET before == prev[1].kwargs
        IN  /\ Len(handed) = 1
            /\ kw.name = before.name
            /\ kw.version = before.version
            /\ kw.description = before.description
            /\ kw.author = before.author
            /\ kw.author_email = before.author_email
            /\ kw.url = before.url
            /\ kw.install_requires = before.install_requires
            /\ kw.classifiers = before.classifiers
            /\ kw.keywords = before.keywords
            /\ file = prev[1].file => kw.scripts = before.scripts
            /\ Len(kw.scripts) = Len(before.scripts)
            /\ \A i \in 1..Len(kw.scripts) :
                  Resolve(cwd, kw.scripts[i])
                      = Resolve(prev[1].cwd, before.scripts[i])

C6_Witness ==
    /\ Called
    /\ prev # <<>>
    /\ prev[1].file = file
    /\ prev[1].cwd = cwd
    /\ kw = prev[1].kwargs

(***************************************************************************)
(* C7: the metadata handed to setup() is the declared literals, unchanged. *)
(***************************************************************************)
C7_MetadataIsTheDeclaredLiterals ==
    Called =>
        /\ kw.name = "packtools"
        /\ kw.version = "0.0.1"
        /\ kw.author = "OpenStack Foundation"
        /\ kw.url = "https://github.com/harlowja/packtools/"
        /\ kw.keywords = "packaging rpm pip yum specfile"
        /\ kw.classifiers = << "Development Status :: 4 - Beta",
                               "Topic :: Utilities",
                               "Operating System :: POSIX :: Linux",
                               "Programming Language :: Python" >>

C7_Witness == Called /\ kw.name = "packtools" /\ Len(kw.classifiers) = 4

(***************************************************************************)
(* C8: the descriptor checks no script for existence: whichever of the     *)
(* five files are on disk, the evaluation ends in the setup() call and     *)
(* declares all five paths, those of the files that are missing included.  *)
(***************************************************************************)
C8_NoExistenceCheck ==
    /\ pc \in {"loaded", "called"}
    /\ Called =>
          /\ Len(handed) = 1
          /\ Len(kw.scripts) = 5
          /\ \A n \in ScriptNames :
                \E i \in 1..5 : Resolve(cwd, kw.scripts[i]) = ScriptsDir \o <<n>>

C8_Witness ==
    /\ Called
    /\ exists = {"py2rpm"}
    /\ \E i \in 1..Len(kw.scripts) :
          Resolve(cwd, kw.scripts[i]) = ScriptsDir \o <<"yyoom">>

(***************************************************************************)
(* C9: every declared dependency specifier parses as a non-empty name,     *)
(* optionally followed by a comparison operator and a version.             *)
(***************************************************************************)
C9_RequirementsParse ==
    Called =>
        \A i \in 1..Len(kw.install_requires) :
            ParseRequirement(kw.install_requires[i]).ok

C9_Witness ==
    /\ Called
    /\ \E i \in 1..Len(kw.install_requires) :
          LET r == ParseRequirement(kw.install_requires[i])
          IN  r.ok /\ r.name = "six" /\ r.op = ">=" /\ r.version = "1.4.1"

(***************************************************************************)
(* C10: _path(fn) is the directory component of __file__, as given (an     *)
(* absolute path only if __file__ is one), joined with fn; when __file__   *)
(* is a bare file name the result is fn itself, which the operating system *)
(* resolves against the current working directory.                         *)
(***************************************************************************)
DirectoryAsGiven(f) ==
    LET head == SubSeq(f, 1, Len(f) - 1)
        N    == {i \in 1..Len(head) : head[i] # "/"}
    IN  IF N = {} THEN head
        ELSE SubSeq(head, 1, CHOOSE i \in N : \A j \in N : j <= i)

C10_PathJoinsDirectoryAsGiven ==
    Called =>
        \A i \in 1..Len(kw.scripts) :
            LET fn == <<"scripts", "/", DeclaredNames[i]>>
                d  == DirectoryAsGiven(file)
                s  == kw.scripts[i]
            IN  /\ startswithSep(s) <=> startswithSep(file)
                /\ d = <<>> =>
                      /\ s = fn
                      /\ Resolve(cwd, s) = cwd \o <<"scripts", DeclaredNames[i]>>
                /\ (d # <<>> /\ d[Len(d)] # "/") => s = d \o <<"/">> \o fn
                /\ (d # <<>> /\ d[Len(d)] = "/") => s = d \o fn

C10_Witness ==
    /\ Called
    /\ file = <<"setup.py">>
    /\ kw.scripts[3] = <<"scripts", "/", "py2rpm">>

====
